---- MODULE Spec2Model ----
(***************************************************************************)
(* Model of the account store of pit (package users): the Model           *)
(* (registration, lookup, listing) and the User objects that mutate       *)
(* themselves and persist through the owning Model's table handle.         *)
(*                                                                         *)
(* Strings are sequences of symbols.  Three symbols matter to the code:    *)
(*   "+"      the plus sign RegisterUserPlainKey strips from an uid,       *)
(*   "xFF"    a byte that is not valid UTF-8 (a Go string holds any bytes),*)
(*   "uFFFD"  the Unicode replacement character encoding/json writes in    *)
(*            place of every invalid byte.                                 *)
(* Any other symbol stands for a run of ordinary valid UTF-8 text.         *)
(***************************************************************************)
EXTENDS Integers, Sequences, FiniteSets, TLC

VARIABLES table, objs, now, ret, boot, pend

vars == <<table, objs, now, ret, boot, pend>>

(***************************************************************************)
(* Bounds of the model.                                                    *)
(***************************************************************************)
\* the clock time.Now().Unix() takes the values 0..MaxTime
MaxTime == 1
\* an Account object holds at most MaxLog activity entries
MaxLog == 2
\* initTable is followed for MaxPolls turns of its polling loop
MaxPolls == 3

\* the variables of the caller that hold a *User; Spec uses the first
AllHandles == {1, 2}
Handles == {1}

\* uids callers pass in
UIDs == {<<"a">>, <<"+", "a", "+">>}
\* passwords callers pass in
Passwords == {"pw1", "pw2"}
\* origin IPs callers pass in
IPs == {<<"ip">>, <<"xFF">>}

\* const ( CActivityAccountType = "account" ; CActivityShardsType = "shards" )
CActivityAccountType == <<"account">>
CActivityShardsType == <<"shards">>
\* the (category, description, origin IP) triples callers log
Activities ==
  {<<CActivityAccountType, <<"d">>, <<"ip">>>>,
   <<CActivityShardsType, <<"d">>, <<"ip">>>>,
   <<CActivityAccountType, <<"xFF">>, <<"ip">>>>}

\* um.secret, read once from the environment by GetModel
secret == "PIT_SECRET"

(***************************************************************************)
(* Pure functions.                                                         *)
(***************************************************************************)

\* strings.Replace(uid, "+", "", 1): only the first plus sign goes
StripFirstPlus(uid) ==
  IF \E i \in 1..Len(uid) : uid[i] = "+"
  THEN LET i == CHOOSE i \in 1..Len(uid) : uid[i] = "+" /\ \A j \in 1..(i - 1) : uid[j] # "+"
       IN SubSeq(uid, 1, i - 1) \o SubSeq(uid, i + 1, Len(uid))
  ELSE uid

\* strings.Replace(uid, "+", "", -1)
StripPlus(uid) == SelectSeq(uid, LAMBDA c : c # "+")

\* base64(pbkdf2(password, secret, 4096, 32, sha256)): a deterministic
\* function of the password and the secret; the digest is kept symbolic
HashPassword(password) == <<"pbkdf2-sha256", secret, password>>

\* digests callers can pass to RegisterUserPlainKey
Digests == {HashPassword(p) : p \in Passwords}

\* the nil *User
Nil == [nil |-> TRUE]

\* make(map[string][]*LogLine)
EmptyLogs == [c \in {} |-> <<>>]

\* number of LogLines a log map holds
RECURSIVE LogCount(_)
LogCount(logs) ==
  IF DOMAIN logs = {} THEN 0
  ELSE LET c == CHOOSE x \in DOMAIN logs : TRUE
       IN Len(logs[c]) + LogCount([d \in DOMAIN logs \ {c} |-> logs[d]])

(***************************************************************************)
(* encoding/json as the code uses it.                                      *)
(***************************************************************************)

\* a JSON string literal written by json.Marshal and read back: every byte
\* that is not valid UTF-8 comes out as U+FFFD
JsonString(s) == [i \in 1..Len(s) |-> IF s[i] = "xFF" THEN "uFFFD" ELSE s[i]]

\* the bytes of a symbol
SymBytes(c) ==
  CASE c = "xFF" -> <<255>>
    [] c = "uFFFD" -> <<239, 191, 189>>
    [] c = "+" -> <<43>>
    [] c = "a" -> <<97>>
    [] c = "b" -> <<98>>
    [] c = "d" -> <<100>>
    [] c = "ip" -> <<105, 112>>
    [] c = "account" -> <<97, 99, 99, 111, 117, 110, 116>>
    [] c = "shards" -> <<115, 104, 97, 114, 100, 115>>

\* the bytes of a string
RECURSIVE StrBytes(_)
StrBytes(s) == IF s = <<>> THEN <<>> ELSE SymBytes(Head(s)) \o StrBytes(Tail(s))

\* x < y for byte sequences, lexicographic
RECURSIVE BytesLess(_, _)
BytesLess(x, y) ==
  IF y = <<>> THEN FALSE
  ELSE IF x = <<>> THEN TRUE
  ELSE IF Head(x) # Head(y) THEN Head(x) < Head(y)
  ELSE BytesLess(Tail(x), Tail(y))

\* s < t for Go strings (byte-wise lexicographic), the order sort.Strings
\* puts map keys in
StrLess(s, t) == BytesLess(StrBytes(s), StrBytes(t))

\* the keys of a map in the order json.Marshal writes them
RECURSIVE SortedKeys(_)
SortedKeys(S) ==
  IF S = {} THEN <<>>
  ELSE LET m == CHOOSE x \in S : \A y \in S \ {x} : StrLess(x, y)
       IN <<m>> \o SortedKeys(S \ {m})

\* json.Marshal of one LogLine {"ts":..,"ip":..,"type":..,"desc":..}
MarshalLogLine(l) ==
  [ts |-> l.Ts, ip |-> JsonString(l.Ip), type |-> JsonString(l.LogType),
   desc |-> JsonString(l.Desc)]

\* json.Unmarshal of one LogLine
UnmarshalLogLine(j) ==
  [Ts |-> j.ts, Ip |-> j.ip, LogType |-> j.type, Desc |-> j.desc]

\* json.Marshal(us.logs): the members of the object, keys sorted
MarshalLogs(logs) ==
  LET ks == SortedKeys(DOMAIN logs)
  IN [ok |-> TRUE,
      members |-> [i \in 1..Len(ks) |->
                     [k |-> JsonString(ks[i]),
                      v |-> [n \in 1..Len(logs[ks[i]]) |-> MarshalLogLine(logs[ks[i]][n])]]]]

\* json.Unmarshal(logs, &user.logs) into an empty map: of two members with
\* the same key the later one stays
UnmarshalLogs(j) ==
  LET ms == j.members
      last(k) == CHOOSE i \in 1..Len(ms) :
                   ms[i].k = k /\ \A n \in (i + 1)..Len(ms) : ms[n].k # k
  IN [k \in {ms[i].k : i \in 1..Len(ms)} |->
        [n \in 1..Len(ms[last(k)].v) |-> UnmarshalLogLine(ms[last(k)].v[n])]]

\* json.Marshal(us): the exported fields without the "-" tag
MarshalInfo(us) == [ok |-> TRUE, reg_ts |-> us.RegTs, reg_ip |-> JsonString(us.RegIp)]

\* an attribute value json.Unmarshal rejects (a syntax error)
BadJson == [ok |-> FALSE]

(***************************************************************************)
(* The table and the operations on it.                                     *)
(***************************************************************************)

\* the table with no item
EmptyTable == [k \in {} |-> Nil]

\* User.persist: the item PutItem writes, a full overwrite of the item
\* stored under us.uid
ItemOf(us) ==
  [key |-> us.key, info |-> MarshalInfo(us), logs |-> MarshalLogs(us.logs),
   enabled |-> us.Enabled]

\* a write that keeps, of every category, the longer of the stored and the
\* new sequence instead of replacing the logs attribute
persistMergeLogs(tbl, us, writeOk) ==
  IF ~writeOk THEN [ok |-> FALSE, table |-> tbl]
  ELSE IF us.uid \in DOMAIN tbl /\ tbl[us.uid].logs.ok
    THEN LET old == UnmarshalLogs(tbl[us.uid].logs)
             new == UnmarshalLogs(MarshalLogs(us.logs))
             pick(c) == IF c \notin DOMAIN new THEN old[c]
                        ELSE IF c \notin DOMAIN old THEN new[c]
                        ELSE IF Len(old[c]) > Len(new[c]) THEN old[c] ELSE new[c]
             both == [c \in DOMAIN old \cup DOMAIN new |-> pick(c)]
         IN [ok |-> TRUE,
             table |-> (us.uid :> [ItemOf(us) EXCEPT !.logs = MarshalLogs(both)]) @@ tbl]
  ELSE [ok |-> TRUE, table |-> (us.uid :> ItemOf(us)) @@ tbl]

\* a write that updates the digest, the flag and the logs of an item that
\* exists and leaves its info attribute as stored
persistKeepInfo(tbl, us, writeOk) ==
  IF ~writeOk THEN [ok |-> FALSE, table |-> tbl]
  ELSE IF us.uid \in DOMAIN tbl
    THEN [ok |-> TRUE,
          table |-> (us.uid :> [ItemOf(us) EXCEPT !.info = tbl[us.uid].info]) @@ tbl]
  ELSE [ok |-> TRUE, table |-> (us.uid :> ItemOf(us)) @@ tbl]

\* a write that stores the flag "1" whatever flag the object holds
persistFlagOne(tbl, us, writeOk) ==
  IF ~writeOk THEN [ok |-> FALSE, table |-> tbl]
  ELSE [ok |-> TRUE, table |-> (us.uid :> [ItemOf(us) EXCEPT !.enabled = "1"]) @@ tbl]

persist(tbl, us, writeOk) ==
  IF ~writeOk THEN [ok |-> FALSE, table |-> tbl]
  ELSE [ok |-> TRUE, table |-> (us.uid :> ItemOf(us)) @@ tbl]

\* a lookup that strips the plus signs as registration does
AdminGetUserInfoByIDNormalized(tbl, uidIn, readOk) ==
  LET uid == StripPlus(uidIn)
  IN IF ~readOk \/ uid \notin DOMAIN tbl THEN Nil
     ELSE LET data == tbl[uid]
          IN IF ~data.info.ok THEN Nil
             ELSE IF ~data.logs.ok THEN Nil
             ELSE [uid |-> uid, key |-> data.key, Enabled |-> data.enabled,
                   logs |-> UnmarshalLogs(data.logs),
                   RegTs |-> data.info.reg_ts, RegIp |-> data.info.reg_ip]

\* a lookup that returns the user it decoded when the logs attribute fails
\* to decode
AdminGetUserInfoByIDKeepOnBadLogs(tbl, uid, readOk) ==
  IF ~readOk \/ uid \notin DOMAIN tbl THEN Nil
  ELSE LET data == tbl[uid]
       IN IF ~data.info.ok THEN Nil
          ELSE [uid |-> uid, key |-> data.key, Enabled |-> data.enabled,
                logs |-> IF data.logs.ok THEN UnmarshalLogs(data.logs) ELSE EmptyLogs,
                RegTs |-> data.info.reg_ts, RegIp |-> data.info.reg_ip]

\* Model.AdminGetUserInfoByID
AdminGetUserInfoByID(tbl, uid, readOk) ==
  IF ~readOk \/ uid \notin DOMAIN tbl THEN Nil
  ELSE LET data == tbl[uid]
       IN IF ~data.info.ok THEN Nil
          ELSE IF ~data.logs.ok THEN Nil
          ELSE [uid |-> uid, key |-> data.key, Enabled |-> data.enabled,
                logs |-> UnmarshalLogs(data.logs),
                RegTs |-> data.info.reg_ts, RegIp |-> data.info.reg_ip]

\* an authentication that forgets the enabled flag
GetUserInfoAnyFlag(tbl, uid, key, readOk) ==
  LET user == AdminGetUserInfoByID(tbl, uid, readOk)
  IN IF user = Nil THEN Nil
     ELSE IF user.key # HashPassword(key) THEN Nil
     ELSE user

\* Model.GetUserInfo
GetUserInfo(tbl, uid, key, readOk) ==
  LET user == AdminGetUserInfoByID(tbl, uid, readOk)
  IN IF user = Nil THEN Nil
     ELSE IF user.key # HashPassword(key) \/ user.Enabled = "0" THEN Nil
     ELSE user

\* a listing that leaves out the rows that fail to decode
GetRegisteredUsersSkipBad(tbl, scanOk) ==
  IF ~scanOk THEN [nil |-> TRUE, m |-> EmptyTable]
  ELSE [nil |-> FALSE,
        m |-> [uid \in {k \in DOMAIN tbl : tbl[k].info.ok /\ tbl[k].logs.ok} |->
                 [uid |-> uid, key |-> tbl[uid].key, Enabled |-> tbl[uid].enabled,
                  logs |-> UnmarshalLogs(tbl[uid].logs),
                  RegTs |-> tbl[uid].info.reg_ts, RegIp |-> tbl[uid].info.reg_ip]]]

\* Model.GetRegisteredUsers: nil when the scan fails or one row fails to
\* decode, else one User per row
GetRegisteredUsers(tbl, scanOk) ==
  IF ~scanOk THEN [nil |-> TRUE, m |-> EmptyTable]
  ELSE IF \E uid \in DOMAIN tbl : ~tbl[uid].info.ok \/ ~tbl[uid].logs.ok
       THEN [nil |-> TRUE, m |-> EmptyTable]
  ELSE [nil |-> FALSE,
        m |-> [uid \in DOMAIN tbl |->
                 [uid |-> uid, key |-> tbl[uid].key, Enabled |-> tbl[uid].enabled,
                  logs |-> UnmarshalLogs(tbl[uid].logs),
                  RegTs |-> tbl[uid].info.reg_ts, RegIp |-> tbl[uid].info.reg_ip]]]

\* errors.New(...) of RegisterUserPlainKey
ErrExisting == "Existing user account"
ErrStore == "Error trying to store the user data"
NoErr == "nil"

\* an existence check that looks up the uid as given
RegisterLookupRawUid(tbl, uidIn, readOk) ==
  LET uid == uidIn
  IN [uid |-> uid, found |-> AdminGetUserInfoByID(tbl, uid, readOk) # Nil]

\* Model.RegisterUserPlainKey up to its first return: the uid without its
\* plus signs and whether the lookup under it returned a user
RegisterLookup(tbl, uidIn, readOk) ==
  LET uid == StripPlus(uidIn)
  IN [uid |-> uid, found |-> AdminGetUserInfoByID(tbl, uid, readOk) # Nil]

\* Model.RegisterUserPlainKey after the existence check: the new user, its
\* write, and what the call returns
RegisterPersist(tbl, uid, key, ip, t, writeOk) ==
  LET user == [uid |-> uid, key |-> key, Enabled |-> "1", logs |-> EmptyLogs,
               RegTs |-> t, RegIp |-> ip]
      p == persist(tbl, user, writeOk)
  IN IF ~p.ok THEN [user |-> Nil, err |-> ErrStore, table |-> tbl]
     ELSE [user |-> user, err |-> NoErr, table |-> p.table]

\* a disable that persists the object before it sets the flag
DisableUserLate(tbl, us, writeOk) ==
  LET u == [us EXCEPT !.Enabled = "0"]
      p == persist(tbl, us, writeOk)
  IN [user |-> u, persisted |-> p.ok, table |-> p.table]

\* a disable that puts the flag back when the write fails
DisableUserRollback(tbl, us, writeOk) ==
  LET u == [us EXCEPT !.Enabled = "0"]
      p == persist(tbl, u, writeOk)
  IN [user |-> IF p.ok THEN u ELSE us, persisted |-> p.ok, table |-> p.table]

\* User.DisableUser
DisableUser(tbl, us, writeOk) ==
  LET u == [us EXCEPT !.Enabled = "0"]
      p == persist(tbl, u, writeOk)
  IN [user |-> u, persisted |-> p.ok, table |-> p.table]

\* an enable that sets the flag to "true"
EnableUserTrue(tbl, us, writeOk) ==
  LET u == [us EXCEPT !.Enabled = "true"]
      p == persist(tbl, u, writeOk)
  IN [user |-> u, persisted |-> p.ok, table |-> p.table]

\* User.EnableUser
EnableUser(tbl, us, writeOk) ==
  LET u == [us EXCEPT !.Enabled = "1"]
      p == persist(tbl, u, writeOk)
  IN [user |-> u, persisted |-> p.ok, table |-> p.table]

\* User.UpdateUser
UpdateUser(tbl, us, key, writeOk) ==
  LET u == [us EXCEPT !.key = HashPassword(key)]
      p == persist(tbl, u, writeOk)
  IN [user |-> u, persisted |-> p.ok, table |-> p.table]

\* User.AddActivityLog up to its call of persist: the object with the new
\* line, stamped with the clock, appended under its category
AddActivityLog(us, actionType, desc, ip, t) ==
  LET line == [Ip |-> ip, Ts |-> t, LogType |-> actionType, Desc |-> desc]
      old == IF actionType \in DOMAIN us.logs THEN us.logs[actionType] ELSE <<>>
  IN [us EXCEPT !.logs = (actionType :> Append(old, line)) @@ us.logs]

\* User.GetAllActivity
GetAllActivity(us) == us.logs

(***************************************************************************)
(* State.                                                                  *)
(*   table  the DynamoDB table: stored uid -> item                         *)
(*   objs   the *User each variable of the caller holds (Nil: nil pointer) *)
(*   now    time.Now().Unix()                                              *)
(*   ret    the last call: operation, arguments, the outcome of its table  *)
(*          read and write, and what it returned                           *)
(*   boot   Model.initTable: where it is, the description its last         *)
(*          DescribeTable returned, the calls it made, and the status of   *)
(*          the table at DynamoDB                                          *)
(*   pend   the registration each request handler has in flight            *)
(***************************************************************************)

NoCall ==
  [op |-> "none", h |-> 0, args |-> <<>>, readOk |-> TRUE, writeOk |-> TRUE,
   res |-> TRUE, err |-> NoErr, user |-> Nil, out |-> <<>>]

\* items a table can hold before this process starts that no persist of
\* this package wrote: an attribute cut short, which json.Unmarshal rejects
BadInfoItem ==
  [key |-> HashPassword("pw1"), info |-> BadJson, logs |-> MarshalLogs(EmptyLogs),
   enabled |-> "1"]
BadLogsItem ==
  [key |-> HashPassword("pw1"), info |-> [ok |-> TRUE, reg_ts |-> 0, reg_ip |-> <<"ip">>],
   logs |-> BadJson, enabled |-> "1"]

\* a nil *TableDescriptionT: what DescribeTable returns with an error
NilDesc == "nil"

\* initTable has returned: the table is ACTIVE
BootDone ==
  [pc |-> "done", res |-> "ACTIVE", creates |-> 0, polls |-> 0, remote |-> "ACTIVE"]

\* no call of RegisterUserPlainKey is in flight
Idle ==
  [pc |-> "idle", op |-> "none", args |-> <<>>, uid |-> <<>>, key |-> <<>>,
   readOk |-> TRUE, ts |-> 0]
NoPend == [h \in AllHandles |-> Idle]

InitTables ==
  {EmptyTable, (<<"a">> :> BadInfoItem), (<<"a">> :> BadLogsItem)}

Init ==
  /\ table \in InitTables
  /\ objs = [h \in AllHandles |-> Nil]
  /\ now = 0
  /\ ret = NoCall
  /\ boot = BootDone
  /\ pend = NoPend

\* the clock advances
Tick ==
  /\ now < MaxTime
  /\ now' = now + 1
  /\ UNCHANGED <<table, objs, ret, boot, pend>>

\* a handler enters RegisterUserPlainKey (through RegisterUser when op says
\* so) and runs it up to the existence check.  The call returns here when
\* the lookup finds a user; otherwise the handler goes on to build the user
\* and to write it, which is another call to the table: no lock is held and
\* what the other handlers do may fall between.
RegisterCheck(h, op, args, key, readOk) ==
  /\ pend[h].pc = "idle"
  /\ LET r == RegisterLookup(table, args[1], readOk)
     IN IF r.found
          THEN /\ objs' = [objs EXCEPT ![h] = Nil]
               /\ ret' = [NoCall EXCEPT !.op = op, !.h = h, !.args = args,
                            !.readOk = readOk, !.err = ErrExisting, !.out = r.uid]
               /\ UNCHANGED pend
          ELSE /\ pend' = [pend EXCEPT ![h] = [pc |-> "build", op |-> op, args |-> args,
                                               uid |-> r.uid, key |-> key,
                                               readOk |-> readOk, ts |-> 0]]
               /\ UNCHANGED <<objs, ret>>
  /\ UNCHANGED <<table, now, boot>>

\* the handler builds the user: RegTs is the clock as it reads it now,
\* before it calls persist
RegisterBuild(h) ==
  /\ pend[h].pc = "build"
  /\ pend' = [pend EXCEPT ![h] = [@ EXCEPT !.pc = "store", !.ts = now]]
  /\ UNCHANGED <<table, objs, now, ret, boot>>

\* PutItem of the user is served and the call returns
RegisterStore(h, writeOk) ==
  /\ pend[h].pc = "store"
  /\ LET c == pend[h]
         r == RegisterPersist(table, c.uid, c.key, c.args[3], c.ts, writeOk)
     IN /\ table' = r.table
        /\ objs' = [objs EXCEPT ![h] = r.user]
        /\ ret' = [NoCall EXCEPT !.op = c.op, !.h = h, !.args = c.args,
                     !.readOk = c.readOk, !.writeOk = writeOk, !.err = r.err,
                     !.user = r.user, !.out = c.uid]
  /\ pend' = [pend EXCEPT ![h] = Idle]
  /\ UNCHANGED <<now, boot>>

CallRegisterUserPlainKey(h, uid, key, ip, readOk) ==
  RegisterCheck(h, "RegisterUserPlainKey", <<uid, key, ip>>, key, readOk)

\* Model.RegisterUser
CallRegisterUser(h, uid, pw, ip, readOk) ==
  RegisterCheck(h, "RegisterUser", <<uid, pw, ip>>, HashPassword(pw), readOk)

CallGetUserInfo(h, uid, pw, readOk) ==
  /\ pend[h].pc = "idle"
  /\ LET u == GetUserInfo(table, uid, pw, readOk)
     IN /\ objs' = [objs EXCEPT ![h] = u]
        /\ ret' = [NoCall EXCEPT !.op = "GetUserInfo", !.h = h, !.args = <<uid, pw>>,
                     !.readOk = readOk, !.user = u]
        /\ UNCHANGED <<table, now, boot, pend>>

CallAdminGetUserInfoByID(h, uid, readOk) ==
  /\ pend[h].pc = "idle"
  /\ LET u == AdminGetUserInfoByID(table, uid, readOk)
     IN /\ objs' = [objs EXCEPT ![h] = u]
        /\ ret' = [NoCall EXCEPT !.op = "AdminGetUserInfoByID", !.h = h, !.args = <<uid>>,
                     !.readOk = readOk, !.user = u]
        /\ UNCHANGED <<table, now, boot, pend>>

CallGetRegisteredUsers(scanOk) ==
  LET r == GetRegisteredUsers(table, scanOk)
  IN /\ ret' = [NoCall EXCEPT !.op = "GetRegisteredUsers", !.readOk = scanOk,
                  !.res = ~r.nil, !.out = r.m]
     /\ UNCHANGED <<table, objs, now, boot, pend>>

CallDisableUser(h, writeOk) ==
  /\ pend[h].pc = "idle"
  /\ objs[h] # Nil
  /\ LET r == DisableUser(table, objs[h], writeOk)
     IN /\ table' = r.table
        /\ objs' = [objs EXCEPT ![h] = r.user]
        /\ ret' = [NoCall EXCEPT !.op = "DisableUser", !.h = h, !.writeOk = writeOk,
                     !.res = r.persisted]
  /\ UNCHANGED <<now, boot, pend>>

CallEnableUser(h, writeOk) ==
  /\ pend[h].pc = "idle"
  /\ objs[h] # Nil
  /\ LET r == EnableUser(table, objs[h], writeOk)
     IN /\ table' = r.table
        /\ objs' = [objs EXCEPT ![h] = r.user]
        /\ ret' = [NoCall EXCEPT !.op = "EnableUser", !.h = h, !.writeOk = writeOk,
                     !.res = r.persisted]
  /\ UNCHANGED <<now, boot, pend>>

CallUpdateUser(h, pw, writeOk) ==
  /\ pend[h].pc = "idle"
  /\ objs[h] # Nil
  /\ LET r == UpdateUser(table, objs[h], pw, writeOk)
     IN /\ table' = r.table
        /\ objs' = [objs EXCEPT ![h] = r.user]
        /\ ret' = [NoCall EXCEPT !.op = "UpdateUser", !.h = h, !.args = <<pw>>,
                     !.writeOk = writeOk, !.res = r.persisted]
  /\ UNCHANGED <<now, boot, pend>>

\* a handler enters AddActivityLog: it reads the clock and appends the line
\* to its object, then calls persist
CallAddActivityLog(h, actionType, desc, ip) ==
  /\ pend[h].pc = "idle"
  /\ objs[h] # Nil
  /\ LogCount(objs[h].logs) < MaxLog
  /\ objs' = [objs EXCEPT ![h] = AddActivityLog(objs[h], actionType, desc, ip, now)]
  /\ pend' = [pend EXCEPT ![h] = [Idle EXCEPT !.pc = "persist", !.op = "AddActivityLog",
                                              !.args = <<actionType, desc, ip>>,
                                              !.ts = now]]
  /\ UNCHANGED <<table, now, ret, boot>>

\* PutItem of the object with its new line is served and AddActivityLog
\* returns
AddActivityLogPersist(h, writeOk) ==
  /\ pend[h].pc = "persist"
  /\ LET p == persist(table, objs[h], writeOk)
     IN /\ table' = p.table
        /\ ret' = [NoCall EXCEPT !.op = "AddActivityLog", !.h = h,
                     !.args = pend[h].args, !.writeOk = writeOk, !.res = p.ok]
  /\ pend' = [pend EXCEPT ![h] = Idle]
  /\ UNCHANGED <<objs, now, boot>>

CallGetAllActivity(h) ==
  /\ pend[h].pc = "idle"
  /\ objs[h] # Nil
  /\ ret' = [NoCall EXCEPT !.op = "GetAllActivity", !.h = h, !.out = GetAllActivity(objs[h])]
  /\ UNCHANGED <<table, objs, now, boot, pend>>

Next ==
  \/ Tick
  \/ \E h \in Handles, uid \in UIDs, key \in Digests, ip \in IPs, readOk \in BOOLEAN :
       CallRegisterUserPlainKey(h, uid, key, ip, readOk)
  \/ \E h \in Handles, uid \in UIDs, pw \in Passwords, ip \in IPs, readOk \in BOOLEAN :
       CallRegisterUser(h, uid, pw, ip, readOk)
  \/ \E h \in Handles : RegisterBuild(h)
  \/ \E h \in Handles, writeOk \in BOOLEAN : RegisterStore(h, writeOk)
  \/ \E h \in Handles, uid \in UIDs, pw \in Passwords, readOk \in BOOLEAN :
       CallGetUserInfo(h, uid, pw, readOk)
  \/ \E h \in Handles, uid \in UIDs, readOk \in BOOLEAN :
       CallAdminGetUserInfoByID(h, uid, readOk)
  \/ \E scanOk \in BOOLEAN : CallGetRegisteredUsers(scanOk)
  \/ \E h \in Handles, writeOk \in BOOLEAN : CallDisableUser(h, writeOk)
  \/ \E h \in Handles, writeOk \in BOOLEAN : CallEnableUser(h, writeOk)
  \/ \E h \in Handles, pw \in Passwords, writeOk \in BOOLEAN : CallUpdateUser(h, pw, writeOk)
  \/ \E h \in Handles, a \in Activities : CallAddActivityLog(h, a[1], a[2], a[3])
  \/ \E h \in Handles, writeOk \in BOOLEAN : AddActivityLogPersist(h, writeOk)
  \/ \E h \in Handles : CallGetAllActivity(h)

Spec == Init /\ [][Next]_vars

(***************************************************************************)
(* Two request handlers, each holding its own *User of the account "a".    *)
(* The account is registered with one password and one origin IP.          *)
(***************************************************************************)
\* the activities the two handlers log
ActivitiesTwo ==
  {<<CActivityAccountType, <<"d">>, <<"ip">>>>,
   <<CActivityShardsType, <<"d">>, <<"ip">>>>}

NextTwo ==
  \/ Tick
  \/ \E h \in AllHandles : CallRegisterUser(h, <<"a">>, "pw1", <<"ip">>, TRUE)
  \/ \E h \in AllHandles : RegisterBuild(h)
  \/ \E h \in AllHandles : RegisterStore(h, TRUE)
  \/ \E h \in AllHandles : CallAdminGetUserInfoByID(h, <<"a">>, TRUE)
  \/ \E h \in AllHandles, writeOk \in BOOLEAN : CallDisableUser(h, writeOk)
  \/ \E h \in AllHandles : CallEnableUser(h, TRUE)
  \/ \E h \in AllHandles : CallUpdateUser(h, "pw2", TRUE)
  \/ \E h \in AllHandles, a \in ActivitiesTwo : CallAddActivityLog(h, a[1], a[2], a[3])
  \/ \E h \in AllHandles : AddActivityLogPersist(h, TRUE)

SpecTwo == Init /\ [][NextTwo]_vars

(***************************************************************************)
(* A table of two accounts, "a" and "b", and its listing.                  *)
(***************************************************************************)
UIDsList == UIDs \cup {<<"b">>}

InitList ==
  /\ table \in InitTables \cup {(<<"b">> :> BadInfoItem), (<<"b">> :> BadLogsItem)}
  /\ objs = [h \in AllHandles |-> Nil]
  /\ now = 0
  /\ ret = NoCall
  /\ boot = BootDone
  /\ pend = NoPend

NextList ==
  \/ Tick
  \/ \E uid \in UIDsList, ip \in IPs, readOk \in BOOLEAN :
       CallRegisterUser(1, uid, "pw1", ip, readOk)
  \/ RegisterBuild(1)
  \/ \E writeOk \in BOOLEAN : RegisterStore(1, writeOk)
  \/ \E uid \in UIDsList : CallAdminGetUserInfoByID(1, uid, TRUE)
  \/ CallDisableUser(1, TRUE)
  \/ CallAddActivityLog(1, CActivityAccountType, <<"xFF">>, <<"ip">>)
  \/ AddActivityLogPersist(1, TRUE)
  \/ \E scanOk \in BOOLEAN : CallGetRegisteredUsers(scanOk)

SpecList == InitList /\ [][NextList]_vars

(***************************************************************************)
(* Model.initTable, one step per call it makes.  DescribeTable returns a   *)
(* nil description together with its error, and reading TableStatus        *)
(* through a nil description is a run-time panic.                          *)
(***************************************************************************)
\* the statuses DynamoDB reports for a table, and no table at all
TableStatuses == {"CREATING", "UPDATING", "DELETING", "ACTIVE"}
Missing == "MISSING"

\* Table.DescribeTable: the status of the table, or an error (the request
\* fails, or there is no such table) and a nil description
DescribeTable(remote, ok) == IF ok /\ remote # Missing THEN remote ELSE NilDesc

\* Server.CreateTable: a table that does not exist starts being created
CreateTable(remote, ok) == IF ok /\ remote = Missing THEN "CREATING" ELSE remote

InitBoot ==
  /\ table = EmptyTable
  /\ objs = [h \in AllHandles |-> Nil]
  /\ now = 0
  /\ ret = NoCall
  /\ pend = NoPend
  /\ \E r \in TableStatuses \cup {Missing} :
       boot = [pc |-> "describe", res |-> NilDesc, creates |-> 0, polls |-> 0,
               remote |-> r]

\* res, err := um.table.DescribeTable(); if err != nil
BootDescribe(ok) ==
  /\ boot.pc = "describe"
  /\ LET res == DescribeTable(boot.remote, ok)
     IN boot' = [boot EXCEPT !.res = res,
                             !.pc = IF res = NilDesc THEN "create" ELSE "test"]
  /\ UNCHANGED <<table, objs, now, ret, pend>>

\* um.conn.CreateTable(td): its error is logged
BootCreate(ok) ==
  /\ boot.pc = "create"
  /\ boot' = [boot EXCEPT !.remote = CreateTable(boot.remote, ok),
                          !.creates = boot.creates + 1, !.pc = "redescribe"]
  /\ UNCHANGED <<table, objs, now, ret, pend>>

\* res, err = um.table.DescribeTable(): its error is logged
BootRedescribe(ok) ==
  /\ boot.pc = "redescribe"
  /\ boot' = [boot EXCEPT !.res = DescribeTable(boot.remote, ok), !.pc = "test"]
  /\ UNCHANGED <<table, objs, now, ret, pend>>

\* for "ACTIVE" != res.TableStatus
BootTest ==
  /\ boot.pc = "test"
  /\ boot' = [boot EXCEPT !.pc = IF boot.res = NilDesc THEN "panic"
                                 ELSE IF boot.res = "ACTIVE" THEN "done"
                                 ELSE "poll"]
  /\ UNCHANGED <<table, objs, now, ret, pend>>

\* res, err = um.table.DescribeTable() of the loop: its error is logged
BootPoll(ok) ==
  /\ boot.pc = "poll"
  /\ boot.polls < MaxPolls
  /\ boot' = [boot EXCEPT !.res = DescribeTable(boot.remote, ok),
                          !.polls = boot.polls + 1, !.pc = "log"]
  /\ UNCHANGED <<table, objs, now, ret, pend>>

\* log.Debug(..., res.TableStatus); time.Sleep(time.Second)
BootLog ==
  /\ boot.pc = "log"
  /\ boot' = [boot EXCEPT !.pc = IF boot.res = NilDesc THEN "panic" ELSE "test"]
  /\ UNCHANGED <<table, objs, now, ret, pend>>

\* DynamoDB finishes what it is doing with the table
RemoteStep ==
  /\ boot.remote \in {"CREATING", "UPDATING", "DELETING"}
  /\ boot' = [boot EXCEPT !.remote = IF boot.remote = "DELETING" THEN Missing
                                     ELSE "ACTIVE"]
  /\ UNCHANGED <<table, objs, now, ret, pend>>

NextBoot ==
  \/ \E ok \in BOOLEAN : BootDescribe(ok)
  \/ \E ok \in BOOLEAN : BootCreate(ok)
  \/ \E ok \in BOOLEAN : BootRedescribe(ok)
  \/ BootTest
  \/ \E ok \in BOOLEAN : BootPoll(ok)
  \/ BootLog
  \/ RemoteStep

SpecBoot == InitBoot /\ [][NextBoot]_vars

(***************************************************************************)
(* Two request handlers inside Model.RegisterUserPlainKey at once.  The    *)
(* call reads the table (the existence check) and later writes it          *)
(* (persist); no lock is held and PutItem carries no condition, so the     *)
(* calls of the other handler may fall between the two.                    *)
(***************************************************************************)
InitRace ==
  /\ table = EmptyTable
  /\ objs = [h \in AllHandles |-> Nil]
  /\ now = 0
  /\ ret = NoCall
  /\ boot = BootDone
  /\ pend = NoPend

NextRace ==
  \/ Tick
  \/ \E h \in AllHandles, uid \in UIDs, key \in Digests :
       CallRegisterUserPlainKey(h, uid, key, <<"ip">>, TRUE)
  \/ \E h \in AllHandles : RegisterBuild(h)
  \/ \E h \in AllHandles, writeOk \in BOOLEAN : RegisterStore(h, writeOk)

SpecRace == InitRace /\ [][NextRace]_vars

(***************************************************************************)
(* Properties.                                                             *)
(***************************************************************************)

\* the step is a call of one of the named operations
Called(ops) == ret'.op \in ops /\ (ret'.op # ret.op \/ ret' # ret)

Registrations == {"RegisterUser", "RegisterUserPlainKey"}

\* the digest a registration call stores
DigestOf(r) == IF r.op = "RegisterUser" THEN HashPassword(r.args[2]) ELSE r.args[2]

HasPlus(s) == \E i \in 1..Len(s) : s[i] = "+"

\* s without its plus signs
RECURSIVE NoPlus(_)
NoPlus(s) ==
  IF s = <<>> THEN <<>>
  ELSE IF Head(s) = "+" THEN NoPlus(Tail(s))
  ELSE <<Head(s)>> \o NoPlus(Tail(s))

\* the item under uid decodes: getById finds it when the read succeeds
Readable(tbl, uid) == uid \in DOMAIN tbl /\ tbl[uid].info.ok /\ tbl[uid].logs.ok

\* C1: GetUserInfo returns an Account only when an item is stored under
\* exactly that uid, its digest is the hash of the password and its enabled
\* flag is not "0"; when one of the three fails, and so for a flag of "0"
\* with any password, it returns nil.
C1_AuthenticateOnlyWhen ==
  [][Called({"GetUserInfo"}) =>
       LET uid == ret'.args[1]
           pw == ret'.args[2]
           holds == /\ uid \in DOMAIN table
                    /\ table[uid].key = HashPassword(pw)
                    /\ table[uid].enabled = "1"
       IN /\ ret'.user # Nil => holds
          /\ ~holds => ret'.user = Nil /\ objs'[ret'.h] = Nil
          /\ (uid \in DOMAIN table /\ table[uid].enabled = "0") => ret'.user = Nil
          /\ ret'.user # Nil => ret'.user.uid = uid /\ ret'.user.key = HashPassword(pw)]_vars

C1_Witness ==
  /\ ret.op = "GetUserInfo"
  /\ ret.user # Nil
  /\ ret.user.Enabled = "1"
  /\ ret.user.key = HashPassword(ret.args[2])

\* C2: with the table read succeeding, a registration whose stripped uid
\* already has a registered account fails with "Existing user account",
\* returns no user and leaves the table as it was.
C2_DuplicateRegistration ==
  [][(/\ Called(Registrations)
      /\ ret'.readOk
      /\ Readable(table, NoPlus(ret'.args[1])))
     => /\ ret'.err = ErrExisting
        /\ ret'.user = Nil
        /\ table' = table]_vars

C2_Witness ==
  /\ ret.op \in Registrations
  /\ ret.err = ErrExisting
  /\ ret.args[1] = <<"+", "a", "+">>
  /\ Readable(table, <<"a">>)

\* C3: registration looks up and stores the uid without its plus signs: the
\* key it reads is the stripped uid, the only item it writes is the one under
\* the stripped uid, and no stored key holds a plus sign.
C3_RegistrationStripsPlus ==
  [][Called(Registrations) =>
       LET uid == NoPlus(ret'.args[1])
       IN /\ ret'.out = uid
          /\ ~HasPlus(ret'.out)
          /\ \A k \in DOMAIN table' : ~HasPlus(k)
          /\ \A k \in (DOMAIN table' \cup DOMAIN table) \ {uid} :
               k \in DOMAIN table /\ k \in DOMAIN table' /\ table'[k] = table[k]
          /\ ret'.err = NoErr =>
               /\ uid \in DOMAIN table'
               /\ ret'.user.uid = uid
               /\ table'[uid].key = DigestOf(ret')]_vars

C3_Witness ==
  /\ ret.op \in Registrations
  /\ ret.err = NoErr
  /\ HasPlus(ret.args[1])
  /\ DOMAIN table = {<<"a">>}

\* C4: once DisableUser has returned true, GetUserInfo of that uid returns
\* nil for every password while the item is not written again; once
\* EnableUser has returned true, GetUserInfo returns the account again for
\* the password whose digest the object holds.
C4_DisableThenEnable ==
  [][/\ (Called({"DisableUser"}) /\ ret'.res) =>
          \A pw \in Passwords :
            GetUserInfo(table', objs'[ret'.h].uid, pw, TRUE) = Nil
     /\ (Called({"EnableUser"}) /\ ret'.res) =>
          \A pw \in Passwords :
            HashPassword(pw) = objs'[ret'.h].key =>
              LET u == GetUserInfo(table', objs'[ret'.h].uid, pw, TRUE)
              IN u # Nil /\ u.uid = objs'[ret'.h].uid /\ u.Enabled = "1"
     /\ (/\ Called({"GetUserInfo"})
         /\ ret'.readOk
         /\ ret.op = "DisableUser" /\ ret.res
         /\ objs[ret.h].uid = ret'.args[1]) => ret'.user = Nil
     /\ (/\ Called({"GetUserInfo"})
         /\ ret'.readOk
         /\ ret.op = "EnableUser" /\ ret.res
         /\ objs[ret.h].uid = ret'.args[1]
         /\ objs[ret.h].key = HashPassword(ret'.args[2])) => ret'.user # Nil]_vars

\* a disabled account is refused with its own password
C4_Witness ==
  /\ ret.op = "GetUserInfo"
  /\ ret.readOk
  /\ ret.user = Nil
  /\ Readable(table, ret.args[1])
  /\ table[ret.args[1]].enabled = "0"
  /\ table[ret.args[1]].key = HashPassword(ret.args[2])

\* C5: after a successful registration with an uid u that holds a plus sign,
\* into a table with no item under u or under the stripped u, the lookup of u
\* returns nil, the lookup of the stripped u returns the account, and
\* GetUserInfo of u with the registered password returns nil.
C5_LookupDoesNotNormalize ==
  [][/\ (/\ Called(Registrations)
         /\ ret'.err = NoErr
         /\ HasPlus(ret'.args[1])
         /\ ret'.args[1] \notin DOMAIN table
         /\ NoPlus(ret'.args[1]) \notin DOMAIN table)
        => /\ AdminGetUserInfoByID(table', ret'.args[1], TRUE) = Nil
           /\ AdminGetUserInfoByID(table', NoPlus(ret'.args[1]), TRUE) # Nil
           /\ AdminGetUserInfoByID(table', NoPlus(ret'.args[1]), TRUE).key = DigestOf(ret')
           /\ \A pw \in Passwords : GetUserInfo(table', ret'.args[1], pw, TRUE) = Nil
     /\ (/\ Called({"AdminGetUserInfoByID", "GetUserInfo"})
         /\ ret.op \in Registrations /\ ret.err = NoErr
         /\ HasPlus(ret.args[1])
         /\ ret'.args[1] = ret.args[1]) => ret'.user = Nil
     /\ (/\ Called({"AdminGetUserInfoByID"})
         /\ ret'.readOk
         /\ ret.op \in Registrations /\ ret.err = NoErr
         /\ HasPlus(ret.args[1])
         /\ ret'.args[1] = NoPlus(ret.args[1])) => ret'.user # Nil]_vars

C5_Witness ==
  /\ ret.op = "AdminGetUserInfoByID"
  /\ ret.readOk
  /\ HasPlus(ret.args[1])
  /\ ret.user = Nil
  /\ Readable(table, NoPlus(ret.args[1]))

Mutators == {"DisableUser", "EnableUser", "UpdateUser", "AddActivityLog"}

\* the entries a log map holds under a category
Entries(logs, c) == IF c \in DOMAIN logs THEN logs[c] ELSE <<>>

\* the step is handler h entering AddActivityLog: the append to its object
Appending(h) == pend[h].pc = "idle" /\ pend'[h].pc = "persist"

\* the line AddActivityLog makes of the arguments args at the clock value t
LineOf(args, t) == [Ip |-> args[3], Ts |-> t, LogType |-> args[1], Desc |-> args[2]]

\* C6: AddActivityLog(C, desc, ip) appends to the entries the object holds
\* under C a line with the timestamp, IP, category and description of the
\* call and leaves the other categories as they are; after it returns true
\* the account reloaded by AdminGetUserInfoByID holds, under every category,
\* the entries the object holds, the new one last under C.
C6_AppendRoundTrip ==
  [][/\ \A h \in AllHandles :
          Appending(h) =>
            LET cat == pend'[h].args[1]
            IN /\ DOMAIN objs'[h].logs = DOMAIN objs[h].logs \cup {cat}
               /\ objs'[h].logs[cat] =
                    Append(Entries(objs[h].logs, cat), LineOf(pend'[h].args, now))
               /\ \A c \in DOMAIN objs[h].logs \ {cat} :
                    objs'[h].logs[c] = objs[h].logs[c]
     /\ (Called({"AddActivityLog"}) /\ ret'.res) =>
          LET u == objs[ret'.h]
              cat == ret'.args[1]
              back == AdminGetUserInfoByID(table', u.uid, TRUE)
          IN /\ back # Nil
             /\ DOMAIN back.logs = DOMAIN u.logs
             /\ cat \in DOMAIN u.logs
             /\ u.logs[cat][Len(u.logs[cat])] = LineOf(ret'.args, pend[ret'.h].ts)
             /\ \A c \in DOMAIN u.logs : back.logs[c] = u.logs[c]]_vars

\* C7: after a successful persist (a registration that returned a user, a
\* mutating operation that returned true) the account reloaded by
\* AdminGetUserInfoByID has the enabled flag, registration timestamp,
\* registration IP and digest of the object that was persisted.
C7_PersistReloadRoundTrip ==
  [][((Called(Registrations) /\ ret'.err = NoErr) \/ (Called(Mutators) /\ ret'.res)) =>
       LET u == objs'[ret'.h]
           back == AdminGetUserInfoByID(table', u.uid, TRUE)
       IN /\ back # Nil
          /\ back.Enabled = u.Enabled
          /\ back.key = u.key
          /\ back.RegTs = u.RegTs
          /\ back.RegIp = u.RegIp]_vars

\* C8: AddActivityLog makes its object one entry longer, and when it returns
\* true the stored item is the item of the object that persisted; an
\* entry another object of the same uid holds and this object does not is
\* absent from the stored item although its append returned true.
C8_LastWriterWins ==
  [][/\ \A h \in AllHandles :
          Appending(h) => LogCount(objs'[h].logs) = LogCount(objs[h].logs) + 1
     /\ (Called({"AddActivityLog"}) /\ ret'.res) =>
       LET h == ret'.h
           uid == objs[h].uid
           stored == UnmarshalLogs(table'[uid].logs)
       IN /\ table'[uid] = ItemOf(objs'[h])
          /\ objs'[h] = objs[h]
          /\ LogCount(stored) = LogCount(objs[h].logs)
          /\ \A g \in AllHandles \ {h} :
               (objs[g] # Nil /\ objs[g].uid = uid) =>
                 \A c \in DOMAIN objs[g].logs :
                   Len(Entries(objs'[h].logs, c)) < Len(objs[g].logs[c]) =>
                     Len(Entries(stored, c)) < Len(objs[g].logs[c])]_vars

\* two objects of one uid each appended an entry; the stored item is the
\* item of the one that persisted last and lacks the entry of the other
C8_Witness ==
  /\ ret.op = "AddActivityLog"
  /\ ret.res
  /\ \E g \in AllHandles \ {ret.h} :
       /\ objs[g] # Nil
       /\ objs[g].uid = objs[ret.h].uid
       /\ table[objs[g].uid] = ItemOf(objs[ret.h])
       /\ \E c \in DOMAIN objs[g].logs :
            c \notin DOMAIN UnmarshalLogs(table[objs[g].uid].logs)

\* C9: after a mutating operation returns true the stored item under the
\* object's uid is the item of that object: its digest, its enabled flag,
\* the encoding of its registration fields and the encoding of its whole
\* log map, whatever was stored before; items under other uids are as before.
C9_PersistFullOverwrite ==
  [][(Called(Mutators) /\ ret'.res) =>
       LET u == objs'[ret'.h]
       IN /\ u.uid \in DOMAIN table'
          /\ table'[u.uid].key = u.key
          /\ table'[u.uid].enabled = u.Enabled
          /\ table'[u.uid].info = [ok |-> TRUE, reg_ts |-> u.RegTs, reg_ip |-> JsonString(u.RegIp)]
          /\ table'[u.uid].logs = MarshalLogs(u.logs)
          /\ DOMAIN table' = DOMAIN table \cup {u.uid}
          /\ \A k \in DOMAIN table \ {u.uid} : table'[k] = table[k]]_vars

\* a mutation through one object overwrote what another object of the same
\* uid had: the stored item has the digest and logs of the writer
C9_Witness ==
  /\ ret.op \in Mutators
  /\ ret.res
  /\ \E g \in AllHandles \ {ret.h} :
       /\ objs[g] # Nil
       /\ objs[g].uid = objs[ret.h].uid
       /\ objs[g].key # objs[ret.h].key
       /\ objs[g].logs # objs[ret.h].logs
       /\ objs[g].Enabled # objs[ret.h].Enabled
       /\ table[objs[g].uid] = ItemOf(objs[ret.h])

\* C10: GetRegisteredUsers returns nil when the scan fails or one stored item
\* fails to decode; otherwise it returns exactly one user per stored item,
\* under the item's uid, with the item's attributes; it never writes.
C10_ListAllOrNothing ==
  [][Called({"GetRegisteredUsers"}) =>
       /\ table' = table
       /\ objs' = objs
       /\ (~ret'.readOk \/ \E k \in DOMAIN table : ~Readable(table, k)) =>
            /\ ~ret'.res
            /\ DOMAIN ret'.out = {}
       /\ (ret'.readOk /\ \A k \in DOMAIN table : Readable(table, k)) =>
            /\ ret'.res
            /\ DOMAIN ret'.out = DOMAIN table
            /\ \A k \in DOMAIN table :
                 /\ ret'.out[k].uid = k
                 /\ ret'.out[k].key = table[k].key
                 /\ ret'.out[k].Enabled = table[k].enabled
                 /\ ret'.out[k].RegTs = table[k].info.reg_ts
                 /\ ret'.out[k].RegIp = table[k].info.reg_ip
                 /\ MarshalLogs(ret'.out[k].logs) = table[k].logs]_vars

\* one poison record among two stored items makes the listing nil
C10_Witness ==
  /\ ret.op = "GetRegisteredUsers"
  /\ ret.readOk
  /\ ~ret.res
  /\ \E k \in DOMAIN table : Readable(table, k)
  /\ \E k \in DOMAIN table : ~Readable(table, k)

\* C11: AdminGetUserInfoByID returns nil when no item is stored under the
\* uid, when the table read fails, and when the info or the logs attribute of
\* the item fails to decode; it returns a user, built from the attributes of
\* the item, exactly when the read succeeds and both attributes decode; the
\* table is the same after the call.
C11_LookupNilCases ==
  [][Called({"AdminGetUserInfoByID"}) =>
       LET uid == ret'.args[1]
       IN /\ table' = table
          /\ uid \notin DOMAIN table => ret'.user = Nil
          /\ ~ret'.readOk => ret'.user = Nil
          /\ (uid \in DOMAIN table /\ ~table[uid].info.ok) => ret'.user = Nil
          /\ (uid \in DOMAIN table /\ ~table[uid].logs.ok) => ret'.user = Nil
          /\ (ret'.readOk /\ Readable(table, uid)) =>
               /\ ret'.user # Nil
               /\ ret'.user.uid = uid
               /\ ret'.user.key = table[uid].key
               /\ ret'.user.Enabled = table[uid].enabled
               /\ ret'.user.RegTs = table[uid].info.reg_ts
               /\ ret'.user.RegIp = table[uid].info.reg_ip
               /\ MarshalLogs(ret'.user.logs) = table[uid].logs]_vars

\* a lookup whose read succeeded on an item whose logs attribute is cut
\* short returned nil
C11_Witness ==
  /\ ret.op = "AdminGetUserInfoByID"
  /\ ret.readOk
  /\ ret.args[1] \in DOMAIN table
  /\ table[ret.args[1]].info.ok
  /\ ~table[ret.args[1]].logs.ok
  /\ ret.user = Nil

\* the existence check of a registration found no account: the lookup under
\* the stripped uid returned nil
CheckFoundNone(r, tbl) == AdminGetUserInfoByID(tbl, NoPlus(r.args[1]), r.readOk) = Nil

\* C12: when the existence check of a registration finds no account and the
\* write fails, the call returns "Error trying to store the user data" and no
\* user, the table is unchanged and holds no item under the stripped uid;
\* when the write succeeds the call returns a user with Enabled "1", the
\* given ip, the given digest and no logs, and the table holds the item of
\* that user under the stripped uid.
C12_RegistrationPersist ==
  [][(Called(Registrations) /\ CheckFoundNone(ret', table)) =>
       LET uid == NoPlus(ret'.args[1])
       IN /\ ~ret'.writeOk =>
               /\ ret'.err = ErrStore
               /\ ret'.user = Nil
               /\ table' = table
               /\ uid \notin DOMAIN table'
          /\ ret'.writeOk =>
               /\ ret'.err = NoErr
               /\ ret'.user # Nil
               /\ ret'.user.uid = uid
               /\ ret'.user.Enabled = "1"
               /\ ret'.user.RegIp = ret'.args[3]
               /\ ret'.user.key = DigestOf(ret')
               /\ ret'.user.logs = EmptyLogs
               /\ uid \in DOMAIN table'
               /\ table'[uid] = ItemOf(ret'.user)]_vars

\* C13: initTable calls CreateTable only when its first DescribeTable failed;
\* it returns only with a description whose status is ACTIVE; while the
\* last DescribeTable failed or reported another status it goes on to the
\* next turn of the polling loop, and it never aborts.
C13_InitTableBlocksUntilActive ==
  [][/\ boot'.creates # boot.creates =>
          (boot.pc = "create" /\ boot.creates = 0 /\ boot.res = NilDesc)
     /\ boot'.pc = "done" => boot'.res = "ACTIVE"
     /\ (boot.pc = "test" /\ boot.res # "ACTIVE" /\ boot'.pc # boot.pc) =>
          boot'.pc = "poll"
     /\ (boot.pc = "log" /\ boot'.pc # boot.pc) => boot'.pc = "test"
     /\ boot'.pc # "panic"]_vars

\* C14: when two handlers register uids with the same stripped value on a
\* table that held no item for it, at most one of them is returned a user
\* (the other call fails), and the stored item is the item of that user: no
\* other call replaced it.
C14_ConcurrentRegistrationUnique ==
  \A h \in AllHandles :
    objs[h] # Nil =>
      /\ table[objs[h].uid] = ItemOf(objs[h])
      /\ \A g \in AllHandles \ {h} :
           ~(objs[g] # Nil /\ objs[g].uid = objs[h].uid)

\* C15: a registration call whose stripped uid already has an item stored
\* leaves the table unchanged and returns no user, whether the read of the
\* existence check succeeds, fails, or finds an item whose attributes fail
\* to decode.
C15_RegistrationNeverReplaces ==
  [][(Called(Registrations) /\ NoPlus(ret'.args[1]) \in DOMAIN table) =>
       /\ table' = table
       /\ ret'.user = Nil]_vars

\* C16 as stated: after a DisableUser that returned true, whatever operation
\* comes next on an object of that uid, short of an EnableUser that returns
\* true, GetUserInfo still returns nil for every password.
C16_DisableStickyUntilEnable ==
  [][(ret.op = "DisableUser" /\ ret.res /\ ret' # ret
        /\ ~(ret'.op = "EnableUser" /\ ret'.res)) =>
       \A pw \in Passwords :
         GetUserInfo(table', objs[ret.h].uid, pw, TRUE) = Nil]_vars

\* C16, amended: a DisableUser that returns true leaves the stored flag "0";
\* while the stored flag is "0" GetUserInfo returns nil for every password;
\* and the stored flag leaves "0" only by a successful write of an object
\* of that uid whose own flag is "1": an EnableUser, or an UpdateUser or
\* AddActivityLog on an object loaded before the disable.
C16_DisableStickyUntilFlagOneWrite ==
  [][/\ (Called({"DisableUser"}) /\ ret'.res) =>
          table'[objs'[ret'.h].uid].enabled = "0"
     /\ \A uid \in DOMAIN table' :
          table'[uid].enabled = "0" =>
            \A pw \in Passwords, readOk \in BOOLEAN :
              GetUserInfo(table', uid, pw, readOk) = Nil
     /\ \A uid \in DOMAIN table :
          (table[uid].enabled = "0" /\ table'[uid].enabled # "0") =>
            /\ Called(Mutators \cup Registrations)
            /\ objs'[ret'.h] # Nil
            /\ objs'[ret'.h].uid = uid
            /\ objs'[ret'.h].Enabled = "1"
            /\ table'[uid] = ItemOf(objs'[ret'.h])]_vars

\* a DisableUser has returned true while the other handler holds an object
\* of the same uid, loaded before, whose flag is "1"
C16_Witness ==
  /\ ret.op = "DisableUser"
  /\ ret.res
  /\ table[objs[ret.h].uid].enabled = "0"
  /\ \E g \in AllHandles \ {ret.h} :
       /\ objs[g] # Nil
       /\ objs[g].uid = objs[ret.h].uid
       /\ objs[g].Enabled = "1"

\* C17: an UpdateUser(new) that returns true changes only the digest of the
\* object, to the hash of new; the stored digest is that hash; GetUserInfo
\* with new returns the account when the object is enabled and returns nil
\* with every password whose hash differs; the flag, the registration
\* fields and the logs AdminGetUserInfoByID reloads are those the object
\* held before the call.
C17_UpdateUserOnlyDigest ==
  [][(Called({"UpdateUser"}) /\ ret'.res) =>
       LET u == objs[ret'.h]
           new == ret'.args[1]
           r == AdminGetUserInfoByID(table', u.uid, TRUE)
       IN /\ objs'[ret'.h] = [u EXCEPT !.key = HashPassword(new)]
          /\ table'[u.uid].key = HashPassword(new)
          /\ u.Enabled = "1" => GetUserInfo(table', u.uid, new, TRUE) # Nil
          /\ \A old \in Passwords :
               HashPassword(old) # HashPassword(new) =>
                 GetUserInfo(table', u.uid, old, TRUE) = Nil
          /\ r # Nil
          /\ r.Enabled = u.Enabled
          /\ r.RegTs = u.RegTs
          /\ r.RegIp = u.RegIp
          /\ r.logs = u.logs]_vars

\* the object u after the mutation of the call r that returns, whether or
\* not its write succeeds; AddActivityLog appended its line to u when it
\* was entered
Mutated(u, r) ==
  CASE r.op = "DisableUser" -> [u EXCEPT !.Enabled = "0"]
    [] r.op = "EnableUser" -> [u EXCEPT !.Enabled = "1"]
    [] r.op = "UpdateUser" -> [u EXCEPT !.key = HashPassword(r.args[1])]
    [] r.op = "AddActivityLog" -> u

\* C18: a mutating operation returns what its one table write returned; when
\* the write fails it returns false and the table is unchanged, and the
\* object holds the mutated value all the same; when the write succeeds the
\* stored item is the full item of the object, so it carries the change of
\* an earlier operation on that object whose write had failed.
C18_FailedMutationKept ==
  [][Called(Mutators) =>
       LET h == ret'.h
           u == objs[h]
           m == Mutated(u, ret')
           failedBefore == ret.op \in Mutators /\ ret.h = h /\ ~ret.res
       IN /\ ret'.res = ret'.writeOk
          /\ objs'[h] = m
          /\ ret'.op = "AddActivityLog" =>
               LET cat == ret'.args[1]
               IN /\ cat \in DOMAIN u.logs
                  /\ u.logs[cat][Len(u.logs[cat])] = LineOf(ret'.args, pend[h].ts)
          /\ ~ret'.writeOk => table' = table
          /\ ret'.writeOk => table' = (u.uid :> ItemOf(m)) @@ table
          /\ (failedBefore /\ ret'.res) =>
               /\ (ret.op = "DisableUser" /\ ret'.op \in {"UpdateUser", "AddActivityLog"}) =>
                    table'[u.uid].enabled = "0"
               /\ (ret.op = "EnableUser" /\ ret'.op \in {"UpdateUser", "AddActivityLog"}) =>
                    table'[u.uid].enabled = "1"
               /\ (ret.op = "UpdateUser" /\ ret'.op # "UpdateUser") =>
                    table'[u.uid].key = HashPassword(ret.args[1])
               /\ ret.op = "AddActivityLog" =>
                    LET stored == UnmarshalLogs(table'[u.uid].logs)
                        c == JsonString(ret.args[1])
                    IN \E i \in 1..Len(Entries(stored, c)) :
                         /\ stored[c][i].Desc = JsonString(ret.args[2])
                         /\ stored[c][i].Ip = JsonString(ret.args[3])]_vars

\* a DisableUser whose write failed returned false: the object holds "0",
\* the stored item still "1"
C18_Witness ==
  /\ ret.op = "DisableUser"
  /\ ~ret.writeOk
  /\ ~ret.res
  /\ objs[ret.h].Enabled = "0"
  /\ objs[ret.h].uid \in DOMAIN table
  /\ table[objs[ret.h].uid].enabled = "1"

Flags == {"0", "1"}

\* C19: the enabled attribute of every stored item and the flag of every
\* user a caller holds or a call returned is "0" or "1"; a registration
\* that returns a user returns and stores the flag "1"; of the operations
\* on an object only DisableUser and EnableUser change its flag.
C19_EnabledFlagDomain ==
  /\ [](/\ \A uid \in DOMAIN table : table[uid].enabled \in Flags
        /\ \A h \in AllHandles : objs[h] # Nil => objs[h].Enabled \in Flags
        /\ ret.user # Nil => ret.user.Enabled \in Flags
        /\ ret.op = "GetRegisteredUsers" =>
             \A uid \in DOMAIN ret.out : ret.out[uid].Enabled \in Flags)
  /\ [][/\ (Called(Registrations) /\ ret'.user # Nil) =>
             /\ ret'.user.Enabled = "1"
             /\ objs'[ret'.h].Enabled = "1"
             /\ table'[ret'.user.uid].enabled = "1"
        /\ Called({"UpdateUser", "AddActivityLog", "GetAllActivity"}) =>
             objs'[ret'.h].Enabled = objs[ret'.h].Enabled
        /\ Called({"DisableUser"}) => objs'[ret'.h].Enabled = "0"
        /\ Called({"EnableUser"}) => objs'[ret'.h].Enabled = "1"
        /\ Called({"GetRegisteredUsers"}) => objs' = objs]_vars

\* an EnableUser has returned true on an object that a DisableUser had set
\* to "0" and that holds log entries: object and item hold "1"
C19_Witness ==
  /\ ret.op = "EnableUser"
  /\ ret.res
  /\ objs[ret.h].Enabled = "1"
  /\ objs[ret.h].logs # EmptyLogs
  /\ table[objs[ret.h].uid].enabled = "1"

====
